---- MODULE Spec2Model ----
(***************************************************************************)
(* Model of the Poller class of aws-appconfig-poller (src/src/poller.ts,   *)
(* the current snapshot, lines 197-452).                                   *)
(*                                                                         *)
(* One Poller instance.  The two network calls (StartConfigurationSession  *)
(* and GetLatestConfiguration) are awaited, so each is split in the step   *)
(* that issues the call and the step that handles its response; everything *)
(* between two awaits is synchronous JavaScript and is one atomic action.  *)
(* Strings are sequences of one-character strings; an optional JavaScript  *)
(* value is Undefined or Def(v).                                           *)
(***************************************************************************)
EXTENDS Integers, Sequences, FiniteSets, TLC

\* ------------------------------------------------------------------ bounds
\* Number of timer expirations that are explored (the logical clock).
MaxTime == 2

\* ------------------------------------------------------- optional values
Undefined == [def |-> FALSE]
Def(x) == [def |-> TRUE, v |-> x]

\* JavaScript truthiness of an optional number / an optional string.
TruthyNum(x) == x.def /\ x.v # 0
TruthyStr(x) == x.def /\ x.v # <<>>

\* a || b on optional values, for numbers and for strings
OrNum(a, b) == IF TruthyNum(a) THEN a ELSE b

\* x * 1000 in JavaScript: undefined * 1000 is NaN, modelled as Undefined.
Times1000(x) == IF x.def THEN Def(x.v * 1000) ELSE Undefined

\* ---------------------------------------------------------- program data
DEFAULT_POLL_INTERVAL_SECONDS == 60

\* Errors the collaborator and the parser produce.
SessionErrors == {"Failed to start session"}
FetchErrors == {"Failed to get latest"}
MissingTokenError == "Missing configuration token from AppConfig StartConfigurationSession response"
ParseError == "parser threw"

\* Values of PollerConfig.pollIntervalSeconds the instances are built with.
PollIntervals == {Undefined, Def(2)}

\* The caller-supplied configParser: absent, the tests' s.substring(1)
\* (never throws), the README's JSON.parse (throws on a malformed document).
Parsers == {"none", "substring1", "JSON.parse"}

\* What the collaborator can answer.
InitialTokens == {Undefined, Def(<<"i">>)}
NextTokens == {Undefined, Def(<<"n">>)}
Payloads == {Undefined, Def(<<>>), Def(<<"1", "2">>), Def(<<"2">>), Def(<<"!">>)}
VersionLabels == {Undefined, Def("v1")}
SuggestedIntervals == {Undefined, Def(1), Def(3)}

SessionResponses ==
  [ok : {FALSE}, error : SessionErrors]
    \cup [ok : {TRUE}, InitialConfigurationToken : InitialTokens]

GetResponses ==
  [ok : {FALSE}, error : FetchErrors]
    \cup [ok : {TRUE},
          Configuration : Payloads,
          NextPollConfigurationToken : NextTokens,
          VersionLabel : VersionLabels,
          NextPollIntervalInSeconds : SuggestedIntervals]

\* ------------------------------------------------------------- the parser
Digits == {"1", "2"}
DigitValue(c) == IF c = "1" THEN 1 ELSE 2

RECURSIVE DecimalValue(_)
DecimalValue(s) ==
  IF s = <<>> THEN 0
  ELSE 10 * DecimalValue(SubSeq(s, 1, Len(s) - 1)) + DigitValue(s[Len(s)])

\* The result of calling config.configParser on a string: a returned value
\* or a thrown error.
configParser(kind, s) ==
  CASE kind = "substring1" -> [threw |-> FALSE, value |-> IF s = <<>> THEN <<>> ELSE Tail(s)]
    [] kind = "JSON.parse" ->
         IF s # <<>> /\ \A i \in 1..Len(s) : s[i] \in Digits
         THEN [threw |-> FALSE, value |-> DecimalValue(s)]
         ELSE [threw |-> TRUE, error |-> ParseError]

\* ------------------------------------------------------------------ state
VARIABLES
  config,               \* PollerConfig: pollIntervalSeconds, configParser
  pollingPhase,         \* 'ready' | 'starting' | 'active' | 'stopped'
  configurationToken,   \* optional string
  configStringStore,    \* ConfigStore<string>
  configObjectStore,    \* ConfigStore<T>
  timeoutHandle,        \* the last setTimeout: callback, delay argument, still pending
  inflight,             \* the network call being awaited, with the token a fetch carries
  startPending,         \* start() is awaiting startPolling()
  startResult,          \* the Outcome start() resolved with
  now,                  \* logical clock read by new Date()
  stopCalled,           \* history: stop() has been called
  sessionCalls,         \* history: number of StartConfigurationSession calls issued
  fetchCalls,           \* history: number of GetLatestConfiguration calls issued
  awaitingNewSession,   \* history: a fetch rejected and no session was established since
  lastOp                \* history: the last operation, its input and what it returned

vars == <<config, pollingPhase, configurationToken, configStringStore,
          configObjectStore, timeoutHandle, inflight, startPending,
          startResult, now, stopCalled, sessionCalls, fetchCalls,
          awaitingNewSession, lastOp>>

EmptyStore ==
  [latestValue |-> Undefined, lastFreshTime |-> Undefined,
   errorCausingStaleValue |-> Undefined, versionLabel |-> Undefined]

NoTimer == [callback |-> "none", delay |-> Undefined, pending |-> FALSE]
NoCall == [call |-> "none", token |-> Undefined]
NoOp == [op |-> "none", threw |-> FALSE, arg |-> Undefined, ret |-> Undefined]

\* setTimeout(callback, delay)
setTimeout(callback, delay) ==
  [callback |-> callback, delay |-> delay, pending |-> TRUE]

\* The delay a Node.js timer really waits: an argument that is not a number
\* of at least 1 (NaN, 0) becomes 1 millisecond.
EffectiveDelayMs(delay) == IF delay.def /\ delay.v >= 1 THEN delay.v ELSE 1

\* The call counters are history only; they stop counting at MaxCalls, more
\* calls than MaxTime timer expirations can issue.
MaxCalls == MaxTime + 2

Counted(n) == IF n < MaxCalls THEN n + 1 ELSE n

Max(a, b) == IF a >= b THEN a ELSE b

\* ------------------------------------------------------- pure operations
getNextIntervalInSeconds_callerFirst(pollIntervalSeconds, awsSuggestedSeconds) ==
  OrNum(pollIntervalSeconds,
        OrNum(awsSuggestedSeconds, Def(DEFAULT_POLL_INTERVAL_SECONDS)))

getNextIntervalInSeconds(pollIntervalSeconds, awsSuggestedSeconds) ==
  IF TruthyNum(awsSuggestedSeconds) /\ TruthyNum(pollIntervalSeconds)
  THEN Def(Max(awsSuggestedSeconds.v, pollIntervalSeconds.v))
  ELSE OrNum(pollIntervalSeconds,
             OrNum(awsSuggestedSeconds, Def(DEFAULT_POLL_INTERVAL_SECONDS)))

\* The string tier after lines 419-422.
cacheStringValue_skipped(ss, stringValue, versionLabel, t) == ss

cacheStringValue_keepsError(ss, stringValue, versionLabel, t) ==
  [ss EXCEPT !.latestValue = Def(stringValue), !.lastFreshTime = Def(t),
             !.versionLabel = versionLabel]

cacheStringValue(ss, stringValue, versionLabel, t) ==
  [latestValue |-> Def(stringValue), lastFreshTime |-> Def(t),
   versionLabel |-> versionLabel, errorCausingStaleValue |-> Undefined]

\* The object tier after lines 424-436.
cacheObjectValue_clearsErrorOnThrow(os, parser, stringValue, versionLabel, t) ==
  IF parser = "none" THEN os
  ELSE LET r == configParser(parser, stringValue) IN
       IF r.threw
       THEN [os EXCEPT !.errorCausingStaleValue = Undefined]
       ELSE [latestValue |-> Def(r.value), lastFreshTime |-> Def(t),
             versionLabel |-> versionLabel, errorCausingStaleValue |-> Undefined]

cacheObjectValue_keepsError(os, parser, stringValue, versionLabel, t) ==
  IF parser = "none" THEN os
  ELSE LET r == configParser(parser, stringValue) IN
       IF r.threw
       THEN [os EXCEPT !.errorCausingStaleValue = Def(r.error)]
       ELSE [os EXCEPT !.latestValue = Def(r.value), !.lastFreshTime = Def(t),
                       !.versionLabel = versionLabel]

cacheObjectValue_dropsValueOnThrow(os, parser, stringValue, versionLabel, t) ==
  IF parser = "none" THEN os
  ELSE LET r == configParser(parser, stringValue) IN
       IF r.threw
       THEN [EmptyStore EXCEPT !.errorCausingStaleValue = Def(r.error),
                               !.lastFreshTime = os.lastFreshTime]
       ELSE [latestValue |-> Def(r.value), lastFreshTime |-> Def(t),
             versionLabel |-> versionLabel, errorCausingStaleValue |-> Undefined]

cacheObjectValue(os, parser, stringValue, versionLabel, t) ==
  IF parser = "none" THEN os
  ELSE LET r == configParser(parser, stringValue) IN
       IF r.threw
       THEN [os EXCEPT !.errorCausingStaleValue = Def(r.error)]
       ELSE [latestValue |-> Def(r.value), lastFreshTime |-> Def(t),
             versionLabel |-> versionLabel, errorCausingStaleValue |-> Undefined]

cacheNewValue(ss, os, parser, stringValue, versionLabel, t) ==
  [str |-> cacheStringValue(ss, stringValue, versionLabel, t),
   obj |-> cacheObjectValue(os, parser, stringValue, versionLabel, t)]

\* The token after lines 393-395.
nextToken_keepsFirst(token, getResponse) == token

nextToken(token, getResponse) ==
  IF TruthyStr(getResponse.NextPollConfigurationToken)
  THEN getResponse.NextPollConfigurationToken
  ELSE token

\* Both tiers after lines 397-408.
processGetResponse_unchangedClearsError(ss, os, parser, getResponse, t) ==
  IF TruthyStr(getResponse.Configuration)
  THEN cacheNewValue(ss, os, parser, getResponse.Configuration.v,
                     getResponse.VersionLabel, t)
  ELSE [str |-> [ss EXCEPT !.lastFreshTime = Def(t),
                           !.errorCausingStaleValue = Undefined],
        obj |-> [os EXCEPT !.lastFreshTime = Def(t),
                           !.errorCausingStaleValue = Undefined]]

\* Configuration?.transformToString() is
\* the payload itself; it does not throw for the SDK's blob adapter, so the
\* catch of lines 409-413 is not reached.
processGetResponse(ss, os, parser, getResponse, t) ==
  IF TruthyStr(getResponse.Configuration)
  THEN cacheNewValue(ss, os, parser, getResponse.Configuration.v,
                     getResponse.VersionLabel, t)
  ELSE [str |-> [ss EXCEPT !.lastFreshTime = Def(t)],
        obj |-> [os EXCEPT !.lastFreshTime = Def(t)]]

\* Both tiers after the catch of lines 353-354.
markStale_ignored(store, e) == store

markStale_dropsValue(store, e) ==
  [EmptyStore EXCEPT !.errorCausingStaleValue = Def(e)]

markStale(store, e) == [store EXCEPT !.errorCausingStaleValue = Def(e)]

\* Both tiers after the catch of startPolling, lines 329-335: it assigns
\* neither.
storesAfterSessionFailure_marksStale(ss, os, e) ==
  [str |-> markStale(ss, e), obj |-> markStale(os, e)]

storesAfterSessionFailure(ss, os, e) == [str |-> ss, obj |-> os]

\* The timer armed by the catch of startPolling, line 330.
sessionRetryTimer_refetches(pollIntervalSeconds) ==
  setTimeout("fetchLatestConfiguration",
             OrNum(pollIntervalSeconds, Def(DEFAULT_POLL_INTERVAL_SECONDS)))

sessionRetryTimer_givesUp(pollIntervalSeconds) == NoTimer

sessionRetryTimer(pollIntervalSeconds) ==
  setTimeout("startPolling",
             OrNum(pollIntervalSeconds, Def(DEFAULT_POLL_INTERVAL_SECONDS)))

\* The timer armed by the catch of fetchLatestConfiguration, lines 362-367.
sessionRestartTimer_refetches(pollIntervalSeconds) ==
  setTimeout("fetchLatestConfiguration", Times1000(pollIntervalSeconds))

sessionRestartTimer(pollIntervalSeconds) ==
  setTimeout("startPolling", Times1000(pollIntervalSeconds))

\* The timer armed after a successful fetch, lines 375-381.
nextFetchTimer(pollIntervalSeconds, awsSuggestedSeconds) ==
  setTimeout("fetchLatestConfiguration",
             Times1000(getNextIntervalInSeconds(pollIntervalSeconds,
                                                awsSuggestedSeconds)))

\* The guard of start(), line 265.
startRejected_onlyWhenActive(phase) == phase = "active"

startRejected(phase) == phase # "ready"

\* The guard of both getters, lines 288 and 306.
getterRejected_onlyWhenReady(phase) == phase = "ready"

getterRejected(phase) == phase # "active"

\* The phase once the await in start() has returned result, line 270.
phaseAfterStart_onlyOnSuccess(phase, result) ==
  IF result.isInitiallySuccessful THEN "active" ELSE phase

phaseAfterStart(phase, result) == "active"

\* The phase after stop(), line 275.
phaseAfterStop_toggles(phase) == IF phase = "stopped" THEN "active" ELSE "stopped"

phaseAfterStop(phase) == "stopped"

\* The timer after lines 276-278 of stop(): clearTimeout on a handle whose
\* timer has expired or was cleared does nothing.
clearTimeout_ignored(handle) == handle

clearTimeout(handle) == [handle EXCEPT !.pending = FALSE]

\* The session call resolved and line 320 finds a token in the result.
hasInitialToken_anyResponse(resp) == resp.ok

hasInitialToken(resp) ==
  IF resp.ok THEN TruthyStr(resp.InitialConfigurationToken) ELSE FALSE

Outcome(ok, error) == [isInitiallySuccessful |-> ok, error |-> error]

\* What fetchLatestConfiguration returns once the response has been
\* processed into stores, lines 383-385.
fetchSuccessOutcome_reportsParseError(stores) ==
  IF stores.obj.errorCausingStaleValue.def
  THEN Outcome(FALSE, stores.obj.errorCausingStaleValue)
  ELSE Outcome(TRUE, Undefined)

fetchSuccessOutcome(stores) == Outcome(TRUE, Undefined)

\* ------------------------------------------------------------------ Init
\* The state the constructor leaves (lines 242-262), for every configuration
\* it accepts.
Init ==
  /\ config \in [pollIntervalSeconds : PollIntervals, configParser : Parsers]
  /\ pollingPhase = "ready"
  /\ configurationToken = Undefined
  /\ configStringStore = EmptyStore
  /\ configObjectStore = EmptyStore
  /\ timeoutHandle = NoTimer
  /\ inflight = NoCall
  /\ startPending = FALSE
  /\ startResult = Undefined
  /\ now = 0
  /\ stopCalled = FALSE
  /\ sessionCalls = 0
  /\ fetchCalls = 0
  /\ awaitingNewSession = FALSE
  /\ lastOp = NoOp

\* --------------------------------------------------------------- actions
\* startPolling() up to its first await: the session call is issued
\* (lines 313-318).
IssueSession ==
  /\ inflight' = [call |-> "session", token |-> Undefined]
  /\ sessionCalls' = Counted(sessionCalls)

\* fetchLatestConfiguration() up to its await: the fetch is issued with the
\* token held (lines 339-348).
IssueFetch(token) ==
  /\ inflight' = [call |-> "fetch", token |-> token]
  /\ fetchCalls' = Counted(fetchCalls)

\* The promise of startPolling() settles with outcome; when start() is
\* awaiting it, start() continues (lines 270-271).
Settle(outcome) ==
  /\ inflight' = NoCall
  /\ startPending' = FALSE
  /\ IF startPending
     THEN /\ pollingPhase' = phaseAfterStart(pollingPhase, outcome)
          /\ startResult' = Def(outcome)
     ELSE UNCHANGED <<pollingPhase, startResult>>

\* start(), lines 264-269.
start ==
  IF startRejected(pollingPhase)
  THEN /\ lastOp' = [op |-> "start", threw |-> TRUE, arg |-> Undefined, ret |-> Undefined]
       /\ UNCHANGED <<config, awaitingNewSession, pollingPhase, configurationToken, configStringStore,
                      configObjectStore, timeoutHandle, inflight, startPending,
                      startResult, now, stopCalled, sessionCalls, fetchCalls>>
  ELSE /\ pollingPhase' = "starting"
       /\ startPending' = TRUE
       /\ IssueSession
       /\ lastOp' = [op |-> "start", threw |-> FALSE, arg |-> Undefined, ret |-> Undefined]
       /\ UNCHANGED <<config, awaitingNewSession, configurationToken, configStringStore,
                      configObjectStore, timeoutHandle, startResult, now,
                      stopCalled, fetchCalls>>

\* stop(), lines 274-279.
stop ==
  /\ pollingPhase' = phaseAfterStop(pollingPhase)
  /\ timeoutHandle' = clearTimeout(timeoutHandle)
  /\ stopCalled' = TRUE
  /\ lastOp' = [op |-> "stop", threw |-> FALSE, arg |-> Undefined, ret |-> Undefined]
  /\ UNCHANGED <<config, awaitingNewSession, configurationToken, configStringStore, configObjectStore,
                 inflight, startPending, startResult, now, sessionCalls, fetchCalls>>

\* getConfigurationString(), lines 287-292.
getConfigurationString ==
  /\ lastOp' = IF getterRejected(pollingPhase)
               THEN [op |-> "getConfigurationString", threw |-> TRUE,
                     arg |-> Undefined, ret |-> Undefined]
               ELSE [op |-> "getConfigurationString", threw |-> FALSE,
                     arg |-> Undefined, ret |-> Def(configStringStore)]
  /\ UNCHANGED <<config, awaitingNewSession, pollingPhase, configurationToken, configStringStore,
                 configObjectStore, timeoutHandle, inflight, startPending,
                 startResult, now, stopCalled, sessionCalls, fetchCalls>>

\* getConfigurationObject(), lines 305-310.
getConfigurationObject ==
  /\ lastOp' = IF getterRejected(pollingPhase)
               THEN [op |-> "getConfigurationObject", threw |-> TRUE,
                     arg |-> Undefined, ret |-> Undefined]
               ELSE [op |-> "getConfigurationObject", threw |-> FALSE,
                     arg |-> Undefined, ret |-> Def(configObjectStore)]
  /\ UNCHANGED <<config, awaitingNewSession, pollingPhase, configurationToken, configStringStore,
                 configObjectStore, timeoutHandle, inflight, startPending,
                 startResult, now, stopCalled, sessionCalls, fetchCalls>>

\* The awaited StartConfigurationSession call rejects, or resolves without
\* a usable token: the catch of startPolling (lines 329-335).
SessionFailed(resp) ==
  /\ inflight.call = "session"
  /\ ~hasInitialToken(resp)
  /\ LET e == IF resp.ok THEN MissingTokenError ELSE resp.error IN
     /\ timeoutHandle' = sessionRetryTimer(config.pollIntervalSeconds)
     /\ Settle(Outcome(FALSE, Def(e)))
     /\ LET stores == storesAfterSessionFailure(configStringStore,
                                                configObjectStore, e) IN
        /\ configStringStore' = stores.str
        /\ configObjectStore' = stores.obj
  /\ lastOp' = [op |-> "sessionResponse", threw |-> FALSE, arg |-> Def(resp), ret |-> Undefined]
  /\ UNCHANGED <<config, awaitingNewSession, configurationToken,
                 now, stopCalled, sessionCalls, fetchCalls>>

\* The awaited StartConfigurationSession call resolves with a token: the
\* token is stored and the fetch is issued (lines 326-328, 339-348).
SessionEstablished(resp) ==
  /\ inflight.call = "session"
  /\ hasInitialToken(resp)
  /\ configurationToken' = resp.InitialConfigurationToken
  /\ IssueFetch(resp.InitialConfigurationToken)
  /\ awaitingNewSession' = FALSE
  /\ lastOp' = [op |-> "sessionResponse", threw |-> FALSE, arg |-> Def(resp), ret |-> Undefined]
  /\ UNCHANGED <<config, pollingPhase, configStringStore, configObjectStore,
                 timeoutHandle, startPending, startResult, now, stopCalled,
                 sessionCalls>>

\* The awaited GetLatestConfiguration call rejects (lines 352-373).
FetchFailed(resp) ==
  /\ inflight.call = "fetch"
  /\ ~resp.ok
  /\ configStringStore' = markStale(configStringStore, resp.error)
  /\ configObjectStore' = markStale(configObjectStore, resp.error)
  /\ timeoutHandle' = sessionRestartTimer(config.pollIntervalSeconds)
  /\ Settle(Outcome(FALSE, Def(resp.error)))
  /\ awaitingNewSession' = TRUE
  /\ lastOp' = [op |-> "fetchResponse", threw |-> FALSE, arg |-> Def(resp), ret |-> Undefined]
  /\ UNCHANGED <<config, configurationToken, now, stopCalled, sessionCalls, fetchCalls>>

\* The awaited GetLatestConfiguration call resolves (lines 348-351, 375-385).
FetchSucceeded(resp) ==
  /\ inflight.call = "fetch"
  /\ resp.ok
  /\ configurationToken' = nextToken(configurationToken, resp)
  /\ LET stores == processGetResponse(configStringStore, configObjectStore,
                                      config.configParser, resp, now) IN
     /\ configStringStore' = stores.str
     /\ configObjectStore' = stores.obj
     /\ Settle(fetchSuccessOutcome(stores))
  /\ timeoutHandle' = nextFetchTimer(config.pollIntervalSeconds,
                                     resp.NextPollIntervalInSeconds)
  /\ lastOp' = [op |-> "fetchResponse", threw |-> FALSE, arg |-> Def(resp), ret |-> Undefined]
  /\ UNCHANGED <<config, awaitingNewSession, now, stopCalled, sessionCalls, fetchCalls>>

\* The pending timer expires at time t and runs startPolling (lines 330,
\* 366).
TimerStartPollingAt(t) ==
  /\ timeoutHandle.pending
  /\ timeoutHandle.callback = "startPolling"
  /\ now' = t
  /\ timeoutHandle' = [timeoutHandle EXCEPT !.pending = FALSE]
  /\ IssueSession
  /\ lastOp' = [op |-> "timer", threw |-> FALSE, arg |-> Undefined, ret |-> Undefined]
  /\ UNCHANGED <<config, awaitingNewSession, pollingPhase, configurationToken, configStringStore,
                 configObjectStore, startPending, startResult, stopCalled,
                 fetchCalls>>

\* The pending timer expires at time t and runs fetchLatestConfiguration
\* (line 380).
TimerFetchAt(t) ==
  /\ timeoutHandle.pending
  /\ timeoutHandle.callback = "fetchLatestConfiguration"
  /\ now' = t
  /\ timeoutHandle' = [timeoutHandle EXCEPT !.pending = FALSE]
  /\ IssueFetch(configurationToken)
  /\ lastOp' = [op |-> "timer", threw |-> FALSE, arg |-> Undefined, ret |-> Undefined]
  /\ UNCHANGED <<config, awaitingNewSession, pollingPhase, configurationToken, configStringStore,
                 configObjectStore, startPending, startResult, stopCalled,
                 sessionCalls>>

\* Time passes while a timer waits; MaxTime expirations are explored.
TimerStartPolling == now < MaxTime /\ TimerStartPollingAt(now + 1)

TimerFetch == now < MaxTime /\ TimerFetchAt(now + 1)

Next ==
  \/ start
  \/ stop
  \/ getConfigurationString
  \/ getConfigurationObject
  \/ \E resp \in SessionResponses : SessionFailed(resp)
  \/ \E resp \in SessionResponses : SessionEstablished(resp)
  \/ \E resp \in GetResponses : FetchFailed(resp)
  \/ \E resp \in GetResponses : FetchSucceeded(resp)
  \/ TimerStartPolling
  \/ TimerFetch

Spec == Init /\ [][Next]_vars

\* ------------------------------------------------- construction (C18)
\* Values of sessionConfig.RequiredMinimumPollIntervalInSeconds.
RequiredMinimums == {Undefined, Def(1), Def(2), Def(3)}

\* What new Poller(config) is called with.
PollerConfigs ==
  [pollIntervalSeconds : PollIntervals,
   configParser : Parsers,
   RequiredMinimumPollIntervalInSeconds : RequiredMinimums]

\* The condition under which the constructor throws, lines 250-254.
constructorRejects_alsoWhenEqual(pollIntervalSeconds, requiredMin) ==
  /\ TruthyNum(pollIntervalSeconds)
  /\ TruthyNum(requiredMin)
  /\ pollIntervalSeconds.v <= requiredMin.v

constructorRejects(pollIntervalSeconds, requiredMin) ==
  /\ TruthyNum(pollIntervalSeconds)
  /\ TruthyNum(requiredMin)
  /\ pollIntervalSeconds.v < requiredMin.v

\* No instance exists yet.
CtorInit ==
  /\ config = Undefined
  /\ pollingPhase = "unconstructed"
  /\ configurationToken = Undefined
  /\ configStringStore = EmptyStore
  /\ configObjectStore = EmptyStore
  /\ timeoutHandle = NoTimer
  /\ inflight = NoCall
  /\ startPending = FALSE
  /\ startResult = Undefined
  /\ now = 0
  /\ stopCalled = FALSE
  /\ sessionCalls = 0
  /\ fetchCalls = 0
  /\ awaitingNewSession = FALSE
  /\ lastOp = NoOp

\* new Poller(cfg), lines 242-262: it throws, or leaves an instance in phase
\* ready with empty tiers.  Of cfg the instance later reads the interval and
\* the parser only, so config keeps these.
constructor(cfg) ==
  /\ pollingPhase = "unconstructed"
  /\ IF constructorRejects(cfg.pollIntervalSeconds,
                           cfg.RequiredMinimumPollIntervalInSeconds)
     THEN /\ lastOp' = [op |-> "constructor", threw |-> TRUE,
                        arg |-> Def(cfg), ret |-> Undefined]
          /\ UNCHANGED <<config, pollingPhase, configStringStore, configObjectStore>>
     ELSE /\ config' = [pollIntervalSeconds |-> cfg.pollIntervalSeconds,
                        configParser |-> cfg.configParser]
          /\ pollingPhase' = "ready"
          /\ configStringStore' = EmptyStore
          /\ configObjectStore' = EmptyStore
          /\ lastOp' = [op |-> "constructor", threw |-> FALSE,
                        arg |-> Def(cfg), ret |-> Undefined]
  /\ UNCHANGED <<configurationToken, timeoutHandle, inflight, startPending,
                 startResult, now, stopCalled, sessionCalls, fetchCalls,
                 awaitingNewSession>>

\* Construction, then the life of the instance.
CtorNext ==
  \/ \E cfg \in PollerConfigs : constructor(cfg)
  \/ pollingPhase # "unconstructed" /\ Next

CtorSpec == CtorInit /\ [][CtorNext]_vars

\* ------------------------------------------------------- recovery (C15)
\* An instance that is never stopped, polling for ever.  Until the clock
\* reaches MaxTime the collaborator and the parser may fail in every way;
\* from then on every session call brings a token and every fetch brings a
\* payload the parser accepts.  The clock stops counting at MaxTime, which
\* keeps the states finite while the timers go on expiring.
Settled == now = MaxTime

Tick == IF now < MaxTime THEN now + 1 ELSE now

\* A fetch response with a payload that the configured parser, if any,
\* accepts.
GoodResponse(resp) ==
  IF resp.ok /\ TruthyStr(resp.Configuration)
  THEN IF config.configParser = "none"
       THEN TRUE
       ELSE ~configParser(config.configParser, resp.Configuration.v).threw
  ELSE FALSE

LiveSessionFailed == \E resp \in SessionResponses : ~Settled /\ SessionFailed(resp)

LiveSessionEstablished == \E resp \in SessionResponses : SessionEstablished(resp)

LiveFetchFailed == \E resp \in GetResponses : ~Settled /\ FetchFailed(resp)

LiveFetchSucceeded ==
  \E resp \in GetResponses :
    /\ Settled => GoodResponse(resp)
    /\ FetchSucceeded(resp)

LiveTimerStartPolling == TimerStartPollingAt(Tick)

LiveTimerFetch == TimerFetchAt(Tick)

LiveNext ==
  \/ start
  \/ LiveSessionFailed
  \/ LiveSessionEstablished
  \/ LiveFetchFailed
  \/ LiveFetchSucceeded
  \/ LiveTimerStartPolling
  \/ LiveTimerFetch

\* The event loop runs every timer that is due, and every call that was
\* issued is answered.
LiveSpec ==
  /\ Init
  /\ [][LiveNext]_vars
  /\ WF_vars(LiveTimerStartPolling)
  /\ WF_vars(LiveTimerFetch)
  /\ WF_vars(LiveSessionEstablished)
  /\ WF_vars(LiveFetchSucceeded)

\* ---------------------------------------------------------------- claims
Getters == {"getConfigurationString", "getConfigurationObject"}

\* The last step handled the response to the session call start() issued.
FirstSessionResponse == lastOp.op = "sessionResponse" /\ sessionCalls = 1

\* The last step handled the response to the first fetch, issued under start().
FirstFetchResponse ==
  lastOp.op = "fetchResponse" /\ sessionCalls = 1 /\ fetchCalls = 1

\* The last step handled a fetch response that carries a payload.
FetchedPayload ==
  /\ lastOp.op = "fetchResponse"
  /\ lastOp.arg.v.ok
  /\ TruthyStr(lastOp.arg.v.Configuration)

RetryArmed ==
  /\ timeoutHandle.pending
  /\ timeoutHandle.callback = "startPolling"
  /\ inflight = NoCall

\* C1: when the session call of start() rejects, start() resolves (it does
\* not throw) with isInitiallySuccessful false and the collaborator's error,
\* no fetch has been issued, and a timer that runs startPolling is pending.
C1_SessionRejectReported ==
  (FirstSessionResponse /\ ~lastOp.arg.v.ok) =>
    /\ startResult = Def(Outcome(FALSE, Def(lastOp.arg.v.error)))
    /\ fetchCalls = 0
    /\ RetryArmed

C1_Witness ==
  /\ FirstSessionResponse
  /\ ~lastOp.arg.v.ok
  /\ startResult.def
  /\ startResult.v.error = Def("Failed to start session")

\* C2: when the session is established and the first fetch rejects, start()
\* resolves with isInitiallySuccessful false and the fetch error, both tiers
\* carry that error as errorCausingStaleValue, and a timer that runs
\* startPolling (a session restart) is pending.
C2_FirstFetchFailureReported ==
  (FirstFetchResponse /\ ~lastOp.arg.v.ok) =>
    /\ startResult = Def(Outcome(FALSE, Def(lastOp.arg.v.error)))
    /\ configStringStore.errorCausingStaleValue = Def(lastOp.arg.v.error)
    /\ configObjectStore.errorCausingStaleValue = Def(lastOp.arg.v.error)
    /\ RetryArmed

C2_Witness ==
  /\ FirstFetchResponse
  /\ ~lastOp.arg.v.ok
  /\ startResult.def
  /\ configObjectStore.errorCausingStaleValue = Def("Failed to get latest")

\* The parser is configured and throws on the payload of the last response.
ParserThrewOnPayload ==
  /\ config.configParser # "none"
  /\ configParser(config.configParser, lastOp.arg.v.Configuration.v).threw

\* C3: when the session is established and the first fetch resolves, start()
\* resolves with isInitiallySuccessful true and no error, also when the
\* parser throws on the payload; the parse error is on the object tier.
C3_ParseFailureNotReportedByStart ==
  (FirstFetchResponse /\ lastOp.arg.v.ok) =>
    /\ startResult = Def(Outcome(TRUE, Undefined))
    /\ (FetchedPayload /\ ParserThrewOnPayload) =>
         configObjectStore.errorCausingStaleValue = Def(ParseError)

C3_Witness ==
  /\ FirstFetchResponse
  /\ FetchedPayload
  /\ ParserThrewOnPayload
  /\ startResult.def
  /\ startResult.v.isInitiallySuccessful

\* C4: after a fetch that resolves with a non-empty payload, the string tier
\* holds that payload, the response's version label and no error, with or
\* without a parser and whether or not the parser throws.
C4_StringTierOverwritten ==
  FetchedPayload =>
    /\ configStringStore.latestValue = lastOp.arg.v.Configuration
    /\ configStringStore.versionLabel = lastOp.arg.v.VersionLabel
    /\ configStringStore.errorCausingStaleValue = Undefined

\* The overwrite happens over a tier an earlier fetch failure marked stale,
\* with a parser that throws on the new payload.
C4_Witness ==
  /\ FetchedPayload
  /\ ParserThrewOnPayload
  /\ sessionCalls = 2
  /\ fetchCalls = 2
  /\ configStringStore.latestValue = Def(<<"!">>)

\* C5: once stop() has been called nothing further happens: no timer is
\* pending, no session or fetch call is issued, and the token and both
\* tiers keep their values, also when a call was in flight at stop().
C5_NothingHappensAfterStop ==
  [][stopCalled =>
       /\ ~timeoutHandle'.pending
       /\ sessionCalls' = sessionCalls
       /\ fetchCalls' = fetchCalls
       /\ UNCHANGED <<configurationToken, configStringStore, configObjectStore>>]_vars

\* C6: the phase 'stopped' is never left.
C6_StoppedIsTerminal ==
  [][pollingPhase = "stopped" => pollingPhase' = "stopped"]_vars

\* C7: a start() on an instance whose start() was already invoked throws
\* and leaves phase, token, tiers, timer and the calls issued as they were.
C7_SecondStartRejected ==
  [][(lastOp'.op = "start" /\ sessionCalls > 0) =>
       /\ lastOp'.threw
       /\ UNCHANGED <<config, pollingPhase, configurationToken, configStringStore,
                      configObjectStore, timeoutHandle, inflight, startPending,
                      startResult, sessionCalls, fetchCalls>>]_vars

\* The second start() arrives while the first one awaits its first fetch.
C7_Witness ==
  /\ lastOp.op = "start"
  /\ lastOp.threw
  /\ pollingPhase = "starting"
  /\ inflight.call = "fetch"

\* C8: a getter called in phase ready or starting throws and returns no
\* cache entry.
C8_GettersRejectedBeforeActive ==
  (lastOp.op \in Getters /\ pollingPhase \in {"ready", "starting"}) =>
    lastOp.threw /\ lastOp.ret = Undefined

C8_Witness ==
  /\ lastOp.op = "getConfigurationObject"
  /\ lastOp.threw
  /\ pollingPhase = "starting"
  /\ inflight.call = "fetch"

\* C9: once start() has resolved on an instance that was not stopped, the
\* phase is active whatever the Outcome, and a getter returns its cache
\* entry instead of throwing.
C9_ActiveAfterStartResolves ==
  (startResult.def /\ ~stopCalled) =>
    /\ pollingPhase = "active"
    /\ lastOp.op = "getConfigurationString" =>
         ~lastOp.threw /\ lastOp.ret = Def(configStringStore)
    /\ lastOp.op = "getConfigurationObject" =>
         ~lastOp.threw /\ lastOp.ret = Def(configObjectStore)

\* A getter answers after a start() whose first fetch failed.
C9_Witness ==
  /\ startResult.def
  /\ ~startResult.v.isInitiallySuccessful
  /\ ~stopCalled
  /\ lastOp.op = "getConfigurationObject"
  /\ ~lastOp.threw
  /\ lastOp.ret.v.errorCausingStaleValue = Def("Failed to get latest")

\* lastFreshTime of the tier has moved forward from before to after.
Advanced(before, after) ==
  /\ after.lastFreshTime.def
  /\ before.lastFreshTime.def => after.lastFreshTime.v > before.lastFreshTime.v

\* C10 as claimed: after every fetch that resolves with a payload, with or
\* without a parser, both tiers have no error and an advanced lastFreshTime.
C10_BothTiersFreshAfterPayload ==
  [][FetchedPayload' =>
       /\ configStringStore'.errorCausingStaleValue = Undefined
       /\ configObjectStore'.errorCausingStaleValue = Undefined
       /\ Advanced(configStringStore, configStringStore')
       /\ Advanced(configObjectStore, configObjectStore')]_vars

\* C10 amended: after every fetch that resolves with a payload the string
\* tier has no error and an advanced lastFreshTime; the object tier has
\* them too when a parser is configured and returns on the payload.
C10_TiersFreshAfterParsedPayload ==
  [][FetchedPayload' =>
       /\ configStringStore'.errorCausingStaleValue = Undefined
       /\ Advanced(configStringStore, configStringStore')
       /\ (config.configParser # "none" /\ ~ParserThrewOnPayload') =>
            /\ configObjectStore'.errorCausingStaleValue = Undefined
            /\ Advanced(configObjectStore, configObjectStore')]_vars

\* A parsed payload clears both tiers that the failure of the first fetch
\* had marked stale.
C10_Witness ==
  /\ FetchedPayload
  /\ config.configParser = "JSON.parse"
  /\ sessionCalls = 2
  /\ fetchCalls = 2
  /\ configObjectStore.latestValue = Def(12)
  /\ configObjectStore.errorCausingStaleValue = Undefined
  /\ configObjectStore.lastFreshTime = Def(1)

\* The last step handled a fetch response that carries no payload.
FetchedNoPayload ==
  /\ lastOp.op = "fetchResponse"
  /\ lastOp.arg.v.ok
  /\ ~TruthyStr(lastOp.arg.v.Configuration)

\* latestValue, versionLabel and errorCausingStaleValue of a tier are equal.
SameContent(before, after) ==
  /\ after.latestValue = before.latestValue
  /\ after.versionLabel = before.versionLabel
  /\ after.errorCausingStaleValue = before.errorCausingStaleValue

\* C11: a fetch whose response carries no payload leaves latestValue,
\* versionLabel and errorCausingStaleValue of both tiers as they were and
\* advances lastFreshTime of both.
C11_NoPayloadOnlyRefreshes ==
  [][FetchedNoPayload' =>
       /\ SameContent(configStringStore, configStringStore')
       /\ SameContent(configObjectStore, configObjectStore')
       /\ Advanced(configStringStore, configStringStore')
       /\ Advanced(configObjectStore, configObjectStore')]_vars

\* An unchanged answer arrives over tiers that hold a value, a version label
\* and a parse error on the object tier.
C11_Witness ==
  /\ FetchedNoPayload
  /\ fetchCalls = 2
  /\ configStringStore.latestValue = Def(<<"!">>)
  /\ configStringStore.versionLabel = Def("v1")
  /\ configObjectStore.errorCausingStaleValue = Def(ParseError)
  /\ configStringStore.lastFreshTime = Def(1)
  /\ configObjectStore.lastFreshTime = Def(1)

\* C12: when a fetch resolves with a payload on which the parser throws, the
\* string tier holds the new payload and no error, the object tier holds an
\* error and the latestValue and versionLabel it had before.
C12_ParseFailureKeepsObjectValue ==
  [][(FetchedPayload' /\ ParserThrewOnPayload') =>
       /\ configStringStore'.latestValue = lastOp'.arg.v.Configuration
       /\ configStringStore'.errorCausingStaleValue = Undefined
       /\ configObjectStore'.errorCausingStaleValue.def
       /\ configObjectStore'.latestValue = configObjectStore.latestValue
       /\ configObjectStore'.versionLabel = configObjectStore.versionLabel]_vars

\* The object tier keeps the value parsed from an earlier payload.
C12_Witness ==
  /\ FetchedPayload
  /\ ParserThrewOnPayload
  /\ configStringStore.latestValue = Def(<<"!">>)
  /\ configStringStore.versionLabel = Undefined
  /\ configObjectStore.latestValue = Def(12)
  /\ configObjectStore.versionLabel = Def("v1")
  /\ configObjectStore.errorCausingStaleValue = Def(ParseError)

\* C13: a fetch that rejects when start() is no longer awaiting it reaches
\* no caller (the result of start() and the phase stay as they are), puts
\* the error on both tiers and leaves latestValue, versionLabel and
\* lastFreshTime of both tiers as they were.
C13_LaterFetchFailureAbsorbed ==
  [][(lastOp'.op = "fetchResponse" /\ ~lastOp'.arg.v.ok /\ ~startPending) =>
       /\ startResult' = startResult
       /\ pollingPhase' = pollingPhase
       /\ configStringStore' =
            [configStringStore EXCEPT !.errorCausingStaleValue = Def(lastOp'.arg.v.error)]
       /\ configObjectStore' =
            [configObjectStore EXCEPT !.errorCausingStaleValue = Def(lastOp'.arg.v.error)]]_vars

C13_Witness ==
  /\ config.configParser = "JSON.parse"
  /\ lastOp.op = "fetchResponse"
  /\ ~lastOp.arg.v.ok
  /\ pollingPhase = "active"
  /\ fetchCalls = 2
  /\ startResult = Def(Outcome(TRUE, Undefined))
  /\ configStringStore.latestValue = Def(<<"1", "2">>)
  /\ configObjectStore.latestValue = Def(12)
  /\ configObjectStore.errorCausingStaleValue = Def("Failed to get latest")

\* C14: from a rejected fetch until a session has been established no fetch
\* is issued: the next call issued is a session call, and the next fetch is
\* issued by the step that receives the new session's token and carries
\* that token.
C14_SessionRestartAfterFetchFailure ==
  [][awaitingNewSession =>
       /\ sessionCalls' # sessionCalls => fetchCalls' = fetchCalls
       /\ fetchCalls' # fetchCalls =>
            /\ lastOp'.op = "sessionResponse"
            /\ hasInitialToken(lastOp'.arg.v)
            /\ inflight' = [call |-> "fetch",
                            token |-> lastOp'.arg.v.InitialConfigurationToken]
            /\ configurationToken' = lastOp'.arg.v.InitialConfigurationToken]_vars

\* The fetch that follows a rejected fetch carries the token of the second
\* session.
C14_Witness ==
  /\ lastOp.op = "sessionResponse"
  /\ ~awaitingNewSession
  /\ sessionCalls = 2
  /\ fetchCalls = 3
  /\ inflight = [call |-> "fetch", token |-> Def(<<"i">>)]
  /\ configStringStore.errorCausingStaleValue = Def("Failed to get latest")

\* The last step handled a session call that rejected or brought no token.
SessionAttemptFailed ==
  lastOp.op = "sessionResponse" /\ ~hasInitialToken(lastOp.arg.v)

\* C16: a failed session establishment, under start() or in a restart,
\* leaves both tiers as they were; after a start() whose session
\* establishment failed the string tier has no latestValue and no error.
C16_SessionFailureLeavesTiers ==
  [][SessionAttemptFailed' =>
       /\ UNCHANGED <<configStringStore, configObjectStore>>
       /\ sessionCalls = 1 =>
            /\ configStringStore'.latestValue = Undefined
            /\ configStringStore'.errorCausingStaleValue = Undefined]_vars

\* A restart fails over tiers that hold a value and the error of the fetch
\* that caused the restart.
C16_Witness ==
  /\ SessionAttemptFailed
  /\ sessionCalls = 2
  /\ configStringStore.latestValue = Def(<<"1", "2">>)
  /\ configStringStore.errorCausingStaleValue = Def("Failed to get latest")
  /\ configObjectStore.errorCausingStaleValue = Def("Failed to get latest")

\* The delay in seconds the claim gives for caller interval C and suggested
\* interval S.
ClaimedDelaySeconds(C, S) ==
  IF C.def /\ S.def THEN (IF C.v >= S.v THEN C.v ELSE S.v)
  ELSE IF C.def THEN C.v
  ELSE IF S.def THEN S.v
  ELSE 60

\* C17: after a fetch that resolves, the timer for the next fetch is armed
\* with max(C, S) seconds when both are present, C when only C is, S when
\* only S is, and the default of 60 seconds when neither is; so never with
\* less than S.
C17_NextDelaySelection ==
  (lastOp.op = "fetchResponse" /\ lastOp.arg.v.ok) =>
    LET S == lastOp.arg.v.NextPollIntervalInSeconds
        C == config.pollIntervalSeconds
    IN /\ timeoutHandle.callback = "fetchLatestConfiguration"
       /\ timeoutHandle.pending
       /\ timeoutHandle.delay = Def(1000 * ClaimedDelaySeconds(C, S))
       /\ S.def => timeoutHandle.delay.v >= 1000 * S.v

\* The service suggests more than the caller configured.
C17_Witness ==
  /\ lastOp.op = "fetchResponse"
  /\ lastOp.arg.v.ok
  /\ config.pollIntervalSeconds = Def(2)
  /\ lastOp.arg.v.NextPollIntervalInSeconds = Def(3)
  /\ timeoutHandle.delay = Def(3000)

\* C19: stop() never throws; it leaves the phase stopped and no timer
\* pending and assigns neither token nor tiers; and a stop() on an instance
\* that a stop() left so (phase stopped, no timer pending) changes nothing,
\* so that two calls in a row leave the state of one call.
C19_StopIdempotent ==
  [][lastOp'.op = "stop" =>
       /\ ~lastOp'.threw
       /\ pollingPhase' = "stopped"
       /\ ~timeoutHandle'.pending
       /\ UNCHANGED <<config, configurationToken, configStringStore,
                      configObjectStore, inflight, startPending, startResult,
                      sessionCalls, fetchCalls>>
       /\ (pollingPhase = "stopped" /\ ~timeoutHandle.pending) =>
            UNCHANGED <<pollingPhase, timeoutHandle>>]_vars

\* stop() has been called with a timer pending.
C19_Witness ==
  /\ lastOp.op = "stop"
  /\ pollingPhase = "stopped"
  /\ timeoutHandle.callback = "fetchLatestConfiguration"
  /\ ~timeoutHandle.pending
  /\ inflight = NoCall
  /\ configStringStore.latestValue.def

\* C20: calls never overlap.  A session call is issued only when no call
\* is awaited; a fetch is issued only when no call is awaited or by the
\* continuation of the session call that has just resolved; and no timer is
\* pending while a call is awaited.
C20_CallsNeverOverlap ==
  [][/\ sessionCalls' # sessionCalls => inflight = NoCall
     /\ fetchCalls' # fetchCalls =>
          \/ inflight = NoCall
          \/ inflight.call = "session" /\ lastOp'.op = "sessionResponse"
     /\ inflight'.call # "none" => ~timeoutHandle'.pending]_vars

\* A later cycle's fetch is awaited: the timer that started it has expired
\* and none is pending.
C20_Witness ==
  /\ inflight.call = "fetch"
  /\ lastOp.op = "timer"
  /\ fetchCalls = 2
  /\ ~timeoutHandle.pending
  /\ timeoutHandle.callback = "fetchLatestConfiguration"

\* C18: new Poller throws exactly when the configured interval and the
\* required minimum are both present and the interval is the smaller one;
\* in every other case it yields an instance, in phase ready.
C18_ConstructorRejectsShortInterval ==
  lastOp.op = "constructor" =>
    LET C == lastOp.arg.v.pollIntervalSeconds
        M == lastOp.arg.v.RequiredMinimumPollIntervalInSeconds
    IN /\ lastOp.threw <=> (C.def /\ M.def /\ C.v < M.v)
       /\ lastOp.threw => pollingPhase = "unconstructed"
       /\ ~lastOp.threw =>
            /\ pollingPhase = "ready"
            /\ config.pollIntervalSeconds = C
            /\ configStringStore = EmptyStore
            /\ configObjectStore = EmptyStore

\* An interval of 2 seconds is refused against a minimum of 3.
C18_Witness ==
  /\ lastOp.op = "constructor"
  /\ lastOp.threw
  /\ lastOp.arg.v.pollIntervalSeconds = Def(2)
  /\ lastOp.arg.v.RequiredMinimumPollIntervalInSeconds = Def(3)
  /\ pollingPhase = "unconstructed"

\* A failure has happened: a fetch rejected and the session is not yet
\* re-established, or the last session call failed.
Failed == awaitingNewSession \/ SessionAttemptFailed

\* The string tier holds the payload of the response just handled, and no
\* error.
StringTierRecovered ==
  /\ FetchedPayload
  /\ configStringStore.latestValue = lastOp.arg.v.Configuration
  /\ configStringStore.errorCausingStaleValue = Undefined

\* The object tier holds what the parser returns on that payload, and no
\* error.
ObjectTierRecovered ==
  /\ configObjectStore.errorCausingStaleValue = Undefined
  /\ IF config.configParser = "none"
     THEN TRUE
     ELSE configObjectStore.latestValue =
            Def(configParser(config.configParser, lastOp.arg.v.Configuration.v).value)

\* C15 as claimed: on an instance that is never stopped, in every
\* configuration, a failure is followed by a state in which both tiers have
\* no error and hold the value of the latest payload.
C15_EventualRecovery ==
  Failed ~> (StringTierRecovered /\ ObjectTierRecovered)

\* C15 on an instance with a parser configured: there the recovery happens.
C15_EventualRecoveryWithParser ==
  (Failed /\ config.configParser # "none")
    ~> (StringTierRecovered /\ ObjectTierRecovered)

\* Both tiers have recovered from a rejected fetch that had marked them
\* stale over an earlier value.
C15_Witness ==
  /\ config.configParser = "JSON.parse"
  /\ StringTierRecovered
  /\ ObjectTierRecovered
  /\ sessionCalls = 2
  /\ fetchCalls = 3
  /\ configObjectStore.latestValue = Def(2)

\* C21: once start() has issued the first session call and until stop() is
\* called, a network call is awaited or a timer is pending, whatever the
\* collaborator and the parser answered.
C21_PollingNeverDies ==
  (sessionCalls > 0 /\ ~stopCalled) =>
    (inflight.call # "none" \/ timeoutHandle.pending)

\* After a rejected fetch the new session's response lacked a token, and
\* the retry is armed.
C21_Witness ==
  /\ ~stopCalled
  /\ sessionCalls = 2
  /\ lastOp.op = "sessionResponse"
  /\ lastOp.arg.v.ok
  /\ ~hasInitialToken(lastOp.arg.v)
  /\ configStringStore.errorCausingStaleValue.def
  /\ inflight = NoCall
  /\ timeoutHandle.pending

\* The step issues a GetLatestConfiguration call.
FetchIssued == inflight'.call = "fetch" /\ fetchCalls' # fetchCalls

\* C22: every fetch is issued with a non-empty token, the one the instance
\* holds; and the token held is the one obtained last: a session response
\* with an initial token stores it, a fetch response with a next-poll token
\* stores that, a fetch response without one and every other step leave the
\* token as it was.
C22_FetchCarriesLatestToken ==
  [][/\ FetchIssued =>
          /\ TruthyStr(inflight'.token)
          /\ inflight'.token = configurationToken'
     /\ IF lastOp'.op = "sessionResponse" /\ inflight.call = "session"
        THEN IF hasInitialToken(lastOp'.arg.v)
             THEN configurationToken' = lastOp'.arg.v.InitialConfigurationToken
             ELSE configurationToken' = configurationToken
        ELSE IF lastOp'.op = "fetchResponse" /\ inflight.call = "fetch"
        THEN IF lastOp'.arg.v.ok
             THEN IF TruthyStr(lastOp'.arg.v.NextPollConfigurationToken)
                  THEN configurationToken' = lastOp'.arg.v.NextPollConfigurationToken
                  ELSE configurationToken' = configurationToken
             ELSE configurationToken' = configurationToken
        ELSE configurationToken' = configurationToken]_vars

\* A fetch is awaited that was issued by a timer with the next-poll token of
\* the fetch before it.
C22_Witness ==
  /\ inflight.call = "fetch"
  /\ lastOp.op = "timer"
  /\ inflight.token = Def(<<"n">>)
  /\ configurationToken = Def(<<"n">>)
  /\ sessionCalls = 1
  /\ fetchCalls = 2

\* a is not later than b, for optional times; no time at all is earliest.
NotLater(a, b) == IF a.def THEN (IF b.def THEN a.v <= b.v ELSE FALSE) ELSE TRUE

\* C23: the object tier is never ahead of the string tier.  After every
\* step the object tier's lastFreshTime is not later than the string
\* tier's, and a step that gives the object tier another value gives it
\* what the parser returns on the payload the string tier holds after that
\* step.
C23_ObjectTierNeverAhead ==
  [][/\ NotLater(configObjectStore'.lastFreshTime, configStringStore'.lastFreshTime)
     /\ configObjectStore'.latestValue # configObjectStore.latestValue =>
          IF config.configParser # "none" /\ configStringStore'.latestValue.def
          THEN LET r == configParser(config.configParser,
                                     configStringStore'.latestValue.v) IN
               IF r.threw THEN FALSE
               ELSE configObjectStore'.latestValue = Def(r.value)
          ELSE FALSE]_vars

\* The object tier is behind: it holds the value of an earlier payload
\* while the string tier holds a later payload the parser rejected.
C23_Witness ==
  /\ config.configParser = "JSON.parse"
  /\ configObjectStore.latestValue = Def(2)
  /\ configStringStore.latestValue = Def(<<"!">>)
  /\ configObjectStore.lastFreshTime = Def(0)
  /\ configStringStore.lastFreshTime = Def(1)

\* The object tier holds a value and no error.
ObjectTierCurrent ==
  /\ configObjectStore.latestValue.def
  /\ configObjectStore.errorCausingStaleValue = Undefined

\* C24: with a parser configured, whenever the object tier holds a value
\* and no error, the string tier has no error either, both tiers carry the
\* same versionLabel, and the object tier's value is what the parser
\* returns on the string tier's value.
C24_TiersConsistent ==
  IF config.configParser # "none" /\ ObjectTierCurrent
  THEN /\ configStringStore.errorCausingStaleValue = Undefined
       /\ configStringStore.versionLabel = configObjectStore.versionLabel
       /\ IF configStringStore.latestValue.def
          THEN LET r == configParser(config.configParser,
                                     configStringStore.latestValue.v) IN
               IF r.threw THEN FALSE
               ELSE configObjectStore.latestValue = Def(r.value)
          ELSE FALSE
  ELSE TRUE

\* The object tier is current again after a rejected fetch and a session
\* restart.
C24_Witness ==
  /\ config.configParser = "JSON.parse"
  /\ ObjectTierCurrent
  /\ configObjectStore.latestValue = Def(12)
  /\ configObjectStore.versionLabel = Def("v1")
  /\ sessionCalls = 2
  /\ fetchCalls = 3

\* The step handles the response to the awaited fetch.
FetchResponseStep == lastOp'.op = "fetchResponse" /\ inflight.call = "fetch"

\* C25 as claimed: after any fetch that resolved, with or without a
\* payload, the string tier's errorCausingStaleValue is empty.
C25_StringErrorClearedBySuccess ==
  (lastOp.op = "fetchResponse" /\ lastOp.arg.v.ok) =>
    configStringStore.errorCausingStaleValue = Undefined

\* C25 amended: a fetch that resolves with a payload leaves the string
\* tier's error empty; a fetch that resolves without a payload leaves it as
\* it was; and only a rejected fetch sets it.
C25_StringErrorClearedByPayload ==
  [][/\ (FetchResponseStep /\ lastOp'.arg.v.ok) =>
          IF TruthyStr(lastOp'.arg.v.Configuration)
          THEN configStringStore'.errorCausingStaleValue = Undefined
          ELSE configStringStore'.errorCausingStaleValue =
                 configStringStore.errorCausingStaleValue
     /\ (/\ configStringStore'.errorCausingStaleValue.def
         /\ configStringStore'.errorCausingStaleValue #
              configStringStore.errorCausingStaleValue) =>
          IF FetchResponseStep THEN ~lastOp'.arg.v.ok ELSE FALSE]_vars

\* A fetch has resolved without a payload after a rejected fetch and a
\* session restart, and the string tier still carries the error.
C25_Witness ==
  /\ lastOp.op = "fetchResponse"
  /\ lastOp.arg.v.ok
  /\ ~TruthyStr(lastOp.arg.v.Configuration)
  /\ configStringStore.errorCausingStaleValue = Def("Failed to get latest")
  /\ configStringStore.latestValue.def
  /\ sessionCalls = 2

\* The delay in timer milliseconds that C26 claims for a session retry: the
\* configured interval, or the default, times 1000.
ClaimedRetryDelayMs(pollIntervalSeconds) ==
  Times1000(OrNum(pollIntervalSeconds, Def(DEFAULT_POLL_INTERVAL_SECONDS)))

\* C26: the timer armed for a retry of session establishment, after a
\* failed session call and after a rejected fetch alike, waits the
\* configured poll interval, or the default interval when none is
\* configured, in timer milliseconds.
C26_RetryDelayInMilliseconds ==
  RetryArmed => timeoutHandle.delay = ClaimedRetryDelayMs(config.pollIntervalSeconds)

\* The step handles a session response that resolved without an initial
\* token.
TokenlessSessionStep ==
  /\ lastOp'.op = "sessionResponse"
  /\ inflight.call = "session"
  /\ lastOp'.arg.v.ok
  /\ ~TruthyStr(lastOp'.arg.v.InitialConfigurationToken)

\* C27: a session response without an initial token is a failed attempt:
\* the token held is not changed, no fetch is issued, a retry of session
\* establishment is armed, and a start() that awaits the attempt resolves
\* unsuccessfully with the error.
C27_MissingTokenIsFailure ==
  [][TokenlessSessionStep =>
       /\ configurationToken' = configurationToken
       /\ fetchCalls' = fetchCalls
       /\ inflight' = NoCall
       /\ timeoutHandle'.pending
       /\ timeoutHandle'.callback = "startPolling"
       /\ startPending =>
            startResult' = Def(Outcome(FALSE, Def(MissingTokenError)))]_vars

\* start() has resolved unsuccessfully on a session response without token.
C27_Witness ==
  /\ FirstSessionResponse
  /\ lastOp.arg.v.ok
  /\ ~TruthyStr(lastOp.arg.v.InitialConfigurationToken)
  /\ startResult = Def(Outcome(FALSE, Def(MissingTokenError)))
  /\ configurationToken = Undefined
  /\ RetryArmed

\* The instance is stopped with nothing left to run: no call is awaited and
\* no timer is pending.
Quiescent ==
  /\ pollingPhase = "stopped"
  /\ inflight = NoCall
  /\ ~timeoutHandle.pending

\* C28: a stop() called while a timer is pending and no call is awaited
\* cancels the timer and leaves the instance quiescent; and from a
\* quiescent state every step leaves it quiescent, issues no session call
\* and no fetch, and leaves both tiers and the token as they are.
C28_StopCancelsPendingTimer ==
  [][/\ (/\ lastOp'.op = "stop"
         /\ timeoutHandle.pending
         /\ inflight = NoCall) => Quiescent'
     /\ Quiescent =>
          /\ Quiescent'
          /\ UNCHANGED <<sessionCalls, fetchCalls, configStringStore,
                         configObjectStore, configurationToken>>]_vars

\* After such a stop() the caller went on calling: a start() was refused
\* and nothing had run since the timer was cancelled.
C28_Witness ==
  /\ Quiescent
  /\ lastOp.op = "start"
  /\ lastOp.threw
  /\ timeoutHandle.callback = "fetchLatestConfiguration"
  /\ startResult = Def(Outcome(TRUE, Undefined))
  /\ fetchCalls = 1
  /\ now = 0

====
